---- MODULE Spec2Model ----
(***************************************************************************)
(* Model of the embedding microservice (src/ai-service/app.py): the        *)
(* request validation / preprocessing / batching pipeline of /embeddings,  *)
(* the /model and /similarity endpoints, and the model-loading lifecycle.  *)
(*                                                                         *)
(* A Python str is a sequence of one-character strings.  A JSON list       *)
(* element is a record [isStr, s]: isStr = FALSE is a JSON value that is   *)
(* not a string (null, a list, an object).  Optional[int] is a sequence    *)
(* of length 0 (None) or 1.  Floats are exact reals: a cosine similarity   *)
(* is kept as sign * sqrt(num / den).                                      *)
(***************************************************************************)
EXTENDS Integers, Sequences, FiniteSets, TLC

VARIABLES
    MAX_BATCH_SIZE,      \* Config.MAX_BATCH_SIZE (environment)
    MAX_TEXT_LENGTH,     \* Config.MAX_TEXT_LENGTH (environment)
    model_dim,           \* get_sentence_embedding_dimension() of the configured model
    startup,             \* "main": python app.py; "wsgi": imported by a WSGI server
    proc,                \* "starting" | "serving" | "exited"
    embedding_model,     \* the module global: "None" | "Loaded"
    got_first_request,   \* Flask's flag guarding before_first_request functions
    loads,               \* number of successful load_embedding_model() calls
    req,                 \* the request handled last
    resp,                \* its response
    calls,               \* the batches handed to embedding_model.encode for it
    producer,            \* behaviour of the external encode(): [mode, at]
    arg,                 \* argument of a function applied on its own
    result,              \* <<>> before the application, <<value>> after it
    load_failed,         \* history: some load_embedding_model() call has raised
    earlier,             \* history: the first successful /embeddings exchange
    threads,             \* the request threads of the threaded server, by thread
    session_state        \* st.session_state of one Streamlit session

vars == <<MAX_BATCH_SIZE, MAX_TEXT_LENGTH, model_dim, startup, proc,
          embedding_model, got_first_request, loads, req, resp, calls, producer,
          arg, result, load_failed, earlier, threads, session_state>>

config == <<MAX_BATCH_SIZE, MAX_TEXT_LENGTH, model_dim, startup, producer, arg, result,
            earlier, threads, session_state>>

----------------------------------------------------------------------------
(* Bounds and input sets *)

MaxTexts == 3
MaxVecLen == 2

BatchLimits == {2, 3}
TextLimits == {2, 3}
ModelDims == {2}

Str(s) == [isStr |-> TRUE, s |-> s]
NonStr == [isStr |-> FALSE, s |-> <<>>]

Strings ==
    { <<>>,
      <<" ">>,
      <<" ", "b">>,
      <<"a", " ", "b">>,
      <<"a", "b", "c", "d">> }

Elems == {Str(s) : s \in Strings} \cup {NonStr}

RECURSIVE ListsUpTo(_, _)
ListsUpTo(S, n) ==
    IF n = 0 THEN {<<>>}
    ELSE LET shorter == ListsUpTo(S, n - 1)
         IN  shorter \cup {Append(l, e) : l \in {x \in shorter : Len(x) = n - 1}, e \in S}

TextLists == ListsUpTo(Elems, MaxTexts)

None == <<>>
Some(n) == <<n>>
BatchSizes == {None} \cup {Some(n) : n \in -1 .. (MaxTexts + 1)}

VecVals == {-2, -1, 0, 1, 2}
\* vectors whose norm, sqrt(3) or sqrt(12), is not a floating-point number
LongVectors == {<<1, 1, 1>>, <<-1, -1, -1>>, <<2, 2, 2>>}
Vectors == ListsUpTo(VecVals, MaxVecLen) \cup LongVectors

Min2(a, b) == IF a <= b THEN a ELSE b
Max2(a, b) == IF a >= b THEN a ELSE b

----------------------------------------------------------------------------
(* Python string helpers *)

\* the characters str.split() and str.strip() treat as whitespace (space and
\* tab stand for the class)
Whitespace == {" ", "\t"}

IsSpace(c) == c \in Whitespace

\* str.split() with no argument: the maximal runs of non-whitespace characters
RECURSIVE SplitFrom(_, _, _)
SplitFrom(s, i, cur) ==
    IF i > Len(s)
    THEN IF cur = <<>> THEN <<>> ELSE <<cur>>
    ELSE IF IsSpace(s[i])
         THEN IF cur = <<>>
              THEN SplitFrom(s, i + 1, <<>>)
              ELSE <<cur>> \o SplitFrom(s, i + 1, <<>>)
         ELSE SplitFrom(s, i + 1, Append(cur, s[i]))

split(s) == SplitFrom(s, 1, <<>>)

\* ' '.join(tokens)
RECURSIVE join(_)
join(toks) ==
    IF toks = <<>> THEN <<>>
    ELSE IF Len(toks) = 1 THEN toks[1]
    ELSE toks[1] \o <<" ">> \o join(Tail(toks))

\* text.strip() is empty: every character is whitespace
strip_is_empty(s) == \A i \in 1 .. Len(s) : IsSpace(s[i])

\* s[:k] with Python's slice semantics (a negative k counts from the end)
slice_to(s, k) ==
    IF k >= 0 THEN SubSeq(s, 1, Min2(k, Len(s)))
    ELSE SubSeq(s, 1, Max2(0, Len(s) + k))

----------------------------------------------------------------------------
(* Messages and validation *)

Msg(text, index, n, limit) ==
    [text |-> text, index |-> index, n |-> n, limit |-> limit]

NoMsg == Msg("", -1, 0, 0)

Ok == [ok |-> TRUE, msg |-> NoMsg]
Raise(m) == [ok |-> FALSE, msg |-> m]

\* the loop of validate_texts with >= in place of > in the length check
RECURSIVE validate_from_ge(_, _)
validate_from_ge(texts, i) ==
    IF i > Len(texts) THEN Ok
    ELSE IF ~texts[i].isStr
         THEN Raise(Msg("Text at index {i} must be a string", i - 1, 0, 0))
    ELSE IF Len(texts[i].s) >= MAX_TEXT_LENGTH
         THEN Raise(Msg("Text at index {i} exceeds maximum length {MAX_TEXT_LENGTH}",
                        i - 1, 0, MAX_TEXT_LENGTH))
    ELSE validate_from_ge(texts, i + 1)

\* the loop of validate_texts without its length check
RECURSIVE validate_from_no_length(_, _)
validate_from_no_length(texts, i) ==
    IF i > Len(texts) THEN Ok
    ELSE IF ~texts[i].isStr
         THEN Raise(Msg("Text at index {i} must be a string", i - 1, 0, 0))
    ELSE validate_from_no_length(texts, i + 1)

\* the for loop of validate_texts, from list position i (1-based); messages
\* carry Python's 0-based index
RECURSIVE validate_from(_, _)
validate_from(texts, i) ==
    IF i > Len(texts) THEN Ok
    ELSE IF ~texts[i].isStr
         THEN Raise(Msg("Text at index {i} must be a string", i - 1, 0, 0))
    ELSE IF Len(texts[i].s) > MAX_TEXT_LENGTH
         THEN Raise(Msg("Text at index {i} exceeds maximum length {MAX_TEXT_LENGTH}",
                        i - 1, 0, MAX_TEXT_LENGTH))
    ELSE validate_from(texts, i + 1)

\* validate_texts without its empty-list check
validate_texts_no_empty_check(texts) ==
    IF Len(texts) > MAX_BATCH_SIZE
    THEN Raise(Msg("Batch size {len(texts)} exceeds maximum {MAX_BATCH_SIZE}",
                   -1, Len(texts), MAX_BATCH_SIZE))
    ELSE validate_from(texts, 1)

\* validate_texts with an off-by-one batch limit
validate_texts_limit_off_by_one(texts) ==
    IF Len(texts) = 0
    THEN Raise(Msg("Texts list cannot be empty", -1, 0, 0))
    ELSE IF Len(texts) > MAX_BATCH_SIZE + 1
         THEN Raise(Msg("Batch size {len(texts)} exceeds maximum {MAX_BATCH_SIZE}",
                        -1, Len(texts), MAX_BATCH_SIZE))
    ELSE validate_from(texts, 1)

validate_texts(texts) ==
    IF Len(texts) = 0
    THEN Raise(Msg("Texts list cannot be empty", -1, 0, 0))
    ELSE IF Len(texts) > MAX_BATCH_SIZE
         THEN Raise(Msg("Batch size {len(texts)} exceeds maximum {MAX_BATCH_SIZE}",
                        -1, Len(texts), MAX_BATCH_SIZE))
    ELSE validate_from(texts, 1)

clean(s) ==
    LET cleaned == join(split(s))
    IN  IF Len(cleaned) > MAX_TEXT_LENGTH
        THEN slice_to(cleaned, MAX_TEXT_LENGTH - 3) \o <<".", ".", ".">>
        ELSE cleaned

preprocess_texts(texts) == [i \in 1 .. Len(texts) |-> clean(texts[i].s)]

----------------------------------------------------------------------------
(* The embedding producer (SentenceTransformer.encode), an external         *)
(* capability: one vector of model_dim components per input string.  The   *)
(* components are uninterpreted terms naming the text they were computed   *)
(* from, so that a vector identifies its input.                            *)

Vec(text, normalize) ==
    [k \in 1 .. model_dim |-> [text |-> text, normalize |-> normalize, k |-> k]]

encode(batch_texts, normalize) ==
    [j \in 1 .. Len(batch_texts) |-> Vec(batch_texts[j], normalize)]

\* sum(len(text.split()) for text in batch_texts)
RECURSIVE count_tokens(_)
count_tokens(batch_texts) ==
    IF batch_texts = <<>> THEN 0
    ELSE Len(split(Head(batch_texts))) + count_tokens(Tail(batch_texts))

NoOutput == [raised |-> FALSE, embeddings |-> <<>>, total_tokens |-> 0, calls |-> <<>>]

\* the producer as it behaves: it honours its contract, or its call number
\* `at` within a request raises an exception of class `exc`
GoodProducer == [mode |-> "ok", at |-> 0, exc |-> "none"]
FailingProducer(at, exc) == [mode |-> "raise", at |-> at, exc |-> exc]
\* a producer breaking its contract: call number `at` returns one vector less
\* than it was given texts
ShortProducer(at) == [mode |-> "short", at |-> at, exc |-> "none"]

\* what call number callno of the request returns
encode_call(batch_texts, normalize, callno) ==
    IF producer.mode = "short" /\ producer.at = callno
    THEN encode(SubSeq(batch_texts, 1, Len(batch_texts) - 1), normalize)
    ELSE encode(batch_texts, normalize)

\* the loop with each batch's vectors put in front of the earlier ones
RECURSIVE encode_loop_prepend(_, _, _, _, _)
encode_loop_prepend(processed_texts, batch_size, i, normalize, callno) ==
    IF i >= Len(processed_texts) THEN NoOutput
    ELSE LET batch_texts == SubSeq(processed_texts, i + 1,
                                   Min2(i + batch_size, Len(processed_texts)))
             batch_embeddings == encode(batch_texts, normalize)
             rest == encode_loop_prepend(processed_texts, batch_size, i + batch_size,
                                         normalize, callno + 1)
         IN  [raised       |-> rest.raised,
              embeddings   |-> rest.embeddings \o batch_embeddings,
              total_tokens |-> count_tokens(batch_texts) + rest.total_tokens,
              calls        |-> <<batch_texts>> \o rest.calls]

\* the body of `for i in range(0, len(processed_texts), batch_size)` for a
\* positive step, from offset i (0-based); callno numbers the encode calls
RECURSIVE encode_loop(_, _, _, _, _)
encode_loop(processed_texts, batch_size, i, normalize, callno) ==
    IF i >= Len(processed_texts) THEN NoOutput
    ELSE LET batch_texts == SubSeq(processed_texts, i + 1,
                                   Min2(i + batch_size, Len(processed_texts)))
         IN  IF producer.mode = "raise" /\ producer.at = callno
             THEN [NoOutput EXCEPT !.raised = TRUE, !.calls = <<batch_texts>>]
             ELSE LET batch_embeddings == encode_call(batch_texts, normalize, callno)
                      rest == encode_loop(processed_texts, batch_size, i + batch_size,
                                          normalize, callno + 1)
                  IN  [raised       |-> rest.raised,
                       embeddings   |-> batch_embeddings \o rest.embeddings,
                       total_tokens |-> count_tokens(batch_texts) + rest.total_tokens,
                       calls        |-> <<batch_texts>> \o rest.calls]

\* the default taken only for an absent batch_size, not for 0
or_default_none_only(batch_size, default) ==
    IF batch_size = None THEN default ELSE batch_size[1]

\* request_data.batch_size or Config.MAX_BATCH_SIZE
or_default(batch_size, default) ==
    IF batch_size = None \/ batch_size[1] = 0 THEN default ELSE batch_size[1]

effective_batch_size(batch_size, n) ==
    Min2(Min2(or_default(batch_size, MAX_BATCH_SIZE), MAX_BATCH_SIZE), n)

----------------------------------------------------------------------------
(* Requests and responses *)

NoSim ==
    [present |-> FALSE, nan |-> FALSE, sign |-> 0, num |-> 0, den |-> 1,
     above_one |-> FALSE]

NoReq ==
    [op |-> "none", body |-> "none", has_texts |-> FALSE, texts |-> <<>>,
     normalize |-> TRUE, batch_size |-> None,
     has_e1 |-> FALSE, has_e2 |-> FALSE, embedding1 |-> <<>>, embedding2 |-> <<>>]

\* a JSON response: HTTP status and the keys of the payload that matter
Response(op, status) ==
    [op |-> op, status |-> status,
     error |-> "", has_message |-> FALSE, message |-> NoMsg, has_timestamp |-> FALSE,
     has_embeddings |-> FALSE, embeddings |-> <<>>, total_tokens |-> 0, dimensions |-> 0,
     similarity |-> NoSim]

NoResp == Response("none", 0)

\* no request thread is running
NoThreads == <<>>

\* no Streamlit session is open
NoSession == <<>>

NoEarlier ==
    [present |-> FALSE, texts |-> <<>>, normalize |-> TRUE, batch_size |-> None,
     embeddings |-> <<>>]

ErrorResponse(op, status, error, message) ==
    [Response(op, status) EXCEPT !.error = error, !.has_message = TRUE,
                                 !.message = message, !.has_timestamp = TRUE]

\* EmbeddingRequest(**request.json)
RECURSIVE first_non_str(_, _)
first_non_str(texts, i) ==
    IF i > Len(texts) THEN 0
    ELSE IF ~texts[i].isStr THEN i
    ELSE first_non_str(texts, i + 1)

parse_request(r) ==
    IF r.body = "none"
    THEN [kind |-> "TypeError", msg |-> Msg("argument after ** must be a mapping", -1, 0, 0)]
    ELSE IF ~r.has_texts
    THEN [kind |-> "ValidationError", msg |-> Msg("texts: field required", -1, 0, 0)]
    ELSE IF first_non_str(r.texts, 1) # 0
    THEN [kind |-> "ValidationError",
          msg |-> Msg("texts -> {i}: str type expected", first_non_str(r.texts, 1) - 1, 0, 0)]
    ELSE [kind |-> "ok", msg |-> NoMsg]

\* len(all_embeddings) in place of len(all_embeddings[0])
dimensions_of_count(all_embeddings) ==
    IF all_embeddings # <<>> THEN Len(all_embeddings) ELSE 0

\* len(all_embeddings[0]) if all_embeddings else 0
dimensions_of(all_embeddings) ==
    IF all_embeddings # <<>> THEN Len(all_embeddings[1]) ELSE 0

Handled(response, encode_calls) == [resp |-> response, calls |-> encode_calls]

\* generate_embeddings past its model check: lines 208-284
generate_embeddings_loaded(r) ==
    LET parsed == parse_request(r)
    IN
    IF parsed.kind = "ValidationError"
    THEN Handled(ErrorResponse("embeddings", 400, "validation_error", parsed.msg), <<>>)
    ELSE IF parsed.kind = "TypeError"
    THEN Handled(ErrorResponse("embeddings", 500, "embedding_generation_failed",
                               parsed.msg), <<>>)
    ELSE
    LET valid == validate_texts(r.texts)
    IN
    IF ~valid.ok
    THEN Handled(ErrorResponse("embeddings", 400, "validation_error", valid.msg), <<>>)
    ELSE
    LET processed_texts == preprocess_texts(r.texts)
        batch_size == effective_batch_size(r.batch_size, Len(processed_texts))
    IN
    IF batch_size = 0
    THEN \* range() raises ValueError
         Handled(ErrorResponse("embeddings", 400, "validation_error",
                               Msg("range() arg 3 must not be zero", -1, 0, 0)), <<>>)
    ELSE
    LET out == IF batch_size < 0
               THEN NoOutput   \* range(0, n, negative step) is empty
               ELSE encode_loop(processed_texts, batch_size, 0, r.normalize, 1)
    IN
    IF out.raised /\ producer.exc = "ValueError"
    THEN \* `except ValueError` also catches what encode raises
         Handled(ErrorResponse("embeddings", 400, "validation_error",
                               Msg("encode failed", -1, 0, 0)), out.calls)
    ELSE IF out.raised
    THEN Handled(ErrorResponse("embeddings", 500, "embedding_generation_failed",
                               Msg("encode failed", -1, 0, 0)), out.calls)
    ELSE Handled([Response("embeddings", 200) EXCEPT
                     !.has_embeddings = TRUE,
                     !.embeddings = out.embeddings,
                     !.total_tokens = out.total_tokens,
                     !.dimensions = dimensions_of(out.embeddings)],
                 out.calls)

not_loaded_response ==
    [Response("embeddings", 503) EXCEPT
        !.error = "model_not_loaded", !.has_message = TRUE,
        !.message = Msg("Embedding model is not loaded. Please wait for initialization.",
                        -1, 0, 0)]

\* generate_embeddings with the request parsed before the model check
generate_embeddings_parse_first(r, model) ==
    IF parse_request(r).kind # "ok" THEN generate_embeddings_loaded(r)
    ELSE IF model = "None" THEN Handled(not_loaded_response, <<>>)
    ELSE generate_embeddings_loaded(r)

\* the view function of POST /embeddings, given the module global `model`
generate_embeddings(r, model) ==
    IF model = "None"
    THEN Handled(not_loaded_response, <<>>)
    ELSE generate_embeddings_loaded(r)

\* the view function of GET /model
get_model_info(model) ==
    IF model = "None"
    THEN [Response("model", 503) EXCEPT !.error = "Model not loaded"]
    ELSE [Response("model", 200) EXCEPT !.dimensions = model_dim]

----------------------------------------------------------------------------
(* Cosine similarity: np.dot(e1, e2) / (norm(e1) * norm(e2)) *)

RECURSIVE dot(_, _)
dot(v1, v2) ==
    IF v1 = <<>> THEN 0 ELSE Head(v1) * Head(v2) + dot(Tail(v1), Tail(v2))

sgn(x) == IF x > 0 THEN 1 ELSE IF x < 0 THEN -1 ELSE 0

\* the dot product divided by norm(embedding1) only
cosine_one_norm(embedding1, embedding2) ==
    LET d == dot(embedding1, embedding2)
        sq1 == dot(embedding1, embedding1)
    IN  IF sq1 = 0
        THEN [NoSim EXCEPT !.present = TRUE, !.nan = TRUE]
        ELSE [NoSim EXCEPT !.present = TRUE, !.sign = sgn(d), !.num = d * d,
                           !.den = sq1]

\* IEEE double rounding of |d| / (sqrt(sq1) * sqrt(sq2)) when the exact value
\* is 1 (d * d = sq1 * sq2): the pairs <<sq1, sq2>> of squared norms up to 16
\* for which the rounded product of the two rounded square roots is so far
\* below |d| that the quotient rounds to 1.0000000000000002
QuotientAboveOne ==
    {<<3, 3>>, <<3, 12>>, <<12, 3>>, <<6, 6>>, <<12, 12>>, <<13, 13>>}

\* the quotient as an exact real, sign * sqrt(num / den), with above_one
\* telling that its double value has magnitude 1 + 2^-52; a zero denominator
\* is the floating-point division 0.0 / 0.0, which yields nan
cosine(embedding1, embedding2) ==
    LET d == dot(embedding1, embedding2)
        sq1 == dot(embedding1, embedding1)   \* norm(embedding1) squared
        sq2 == dot(embedding2, embedding2)   \* norm(embedding2) squared
    IN  IF sq1 * sq2 = 0
        THEN [NoSim EXCEPT !.present = TRUE, !.nan = TRUE]
        ELSE [NoSim EXCEPT !.present = TRUE, !.sign = sgn(d), !.num = d * d,
                           !.den = sq1 * sq2,
                           !.above_one = (d * d = sq1 * sq2
                                          /\ <<sq1, sq2>> \in QuotientAboveOne)]

\* a check that only rejects a longer first vector
shape_differs_longer_first(embedding1, embedding2) == Len(embedding1) > Len(embedding2)

\* embedding1.shape != embedding2.shape, for flat lists
shape_differs(embedding1, embedding2) == Len(embedding1) # Len(embedding2)

\* the view function of POST /similarity
compute_similarity(r) ==
    IF r.body = "none"
    THEN [Response("similarity", 500) EXCEPT
             !.error = "argument of type 'NoneType' is not iterable"]
    ELSE IF ~r.has_e1 \/ ~r.has_e2
    THEN [Response("similarity", 400) EXCEPT
             !.error = "Both embedding1 and embedding2 are required"]
    ELSE IF shape_differs(r.embedding1, r.embedding2)
    THEN [Response("similarity", 400) EXCEPT
             !.error = "Embeddings must have the same dimensions"]
    ELSE [Response("similarity", 200) EXCEPT
             !.similarity = cosine(r.embedding1, r.embedding2),
             !.dimensions = Len(r.embedding1)]

----------------------------------------------------------------------------
(* Lifecycle and request dispatch *)

EmbeddingRequests ==
    {[NoReq EXCEPT !.op = "embeddings"]}
    \cup {[NoReq EXCEPT !.op = "embeddings", !.body = "obj"]}
    \cup {[NoReq EXCEPT !.op = "embeddings", !.body = "obj", !.has_texts = TRUE,
                        !.texts = texts, !.normalize = normalize, !.batch_size = batch_size]
            : texts \in TextLists, normalize \in BOOLEAN, batch_size \in BatchSizes}

SimilarityRequests ==
    {[NoReq EXCEPT !.op = "similarity"]}
    \cup {[NoReq EXCEPT !.op = "similarity", !.body = "obj", !.has_e1 = h1, !.has_e2 = h2]
            : h1 \in BOOLEAN, h2 \in {FALSE}}
    \cup {[NoReq EXCEPT !.op = "similarity", !.body = "obj", !.has_e1 = TRUE, !.has_e2 = TRUE,
                        !.embedding1 = e1, !.embedding2 = e2]
            : e1 \in Vectors, e2 \in Vectors}

\* Flask's answer when a before_first_request function raises
internal_error(op) ==
    [Response(op, 500) EXCEPT
        !.error = "internal_server_error", !.has_message = TRUE,
        !.message = Msg("An internal server error occurred", -1, 0, 0)]

Init ==
    /\ MAX_BATCH_SIZE \in BatchLimits
    /\ MAX_TEXT_LENGTH \in TextLimits
    /\ model_dim \in ModelDims
    /\ startup \in {"main", "wsgi"}
    /\ producer = GoodProducer
    /\ proc = IF startup = "main" THEN "starting" ELSE "serving"
    /\ embedding_model = "None"
    /\ got_first_request = FALSE
    /\ loads = 0
    /\ req = NoReq
    /\ resp = NoResp
    /\ calls = <<>>
    /\ arg = <<>>
    /\ result = <<>>
    /\ load_failed = FALSE
    /\ earlier = NoEarlier
    /\ threads = NoThreads
    /\ session_state = NoSession

\* python app.py: load the model, then app.run(); exit(1) when loading raises
MainStartup ==
    /\ proc = "starting"
    /\ \E load_ok \in BOOLEAN :
          IF load_ok
          THEN /\ embedding_model' = "Loaded"
               /\ loads' = loads + 1
               /\ proc' = "serving"
               /\ UNCHANGED load_failed
          ELSE /\ proc' = "exited"
               /\ load_failed' = TRUE
               /\ UNCHANGED <<embedding_model, loads>>
    /\ UNCHANGED <<config, got_first_request, req, resp, calls>>

\* a request arrives; requests are handled one at a time
Receive ==
    /\ proc = "serving"
    /\ req = NoReq
    /\ \E r \in EmbeddingRequests \cup SimilarityRequests \cup {[NoReq EXCEPT !.op = "model"]} :
          req' = r
    /\ UNCHANGED <<config, proc, embedding_model, got_first_request, loads, resp, calls,
                   load_failed>>

\* initialize_model runs before the first request only, and loads the model
\* when the global is still unset
must_load == ~got_first_request /\ embedding_model = "None"

\* the global as the view function sees it, after initialize_model
model_seen == IF must_load THEN "Loaded" ELSE embedding_model

\* the pending request is handled: initialize_model, then the view function,
\* whose answer is `handled`; a failing load raises before the view runs
Dispatch(op, handled) ==
    /\ proc = "serving"
    /\ req.op = op
    /\ resp = NoResp
    /\ \E load_ok \in (IF must_load THEN BOOLEAN ELSE {TRUE}) :
          IF must_load /\ ~load_ok
          THEN /\ resp' = internal_error(op)
               /\ calls' = <<>>
               /\ load_failed' = TRUE
               /\ UNCHANGED <<embedding_model, got_first_request, loads>>
          ELSE /\ embedding_model' = model_seen
               /\ UNCHANGED load_failed
               /\ loads' = IF must_load THEN loads + 1 ELSE loads
               /\ got_first_request' = TRUE
               /\ resp' = handled.resp
               /\ calls' = handled.calls
    /\ UNCHANGED <<config, proc, req>>

GenerateEmbeddings ==
    Dispatch("embeddings", generate_embeddings(req, model_seen))

GetModelInfo ==
    Dispatch("model", Handled(get_model_info(model_seen), <<>>))

ComputeSimilarity ==
    Dispatch("similarity", Handled(compute_similarity(req), <<>>))

\* the response is sent and the request-scoped objects are discarded
Return ==
    /\ resp # NoResp
    /\ req' = NoReq
    /\ resp' = NoResp
    /\ calls' = <<>>
    /\ UNCHANGED <<config, proc, embedding_model, got_first_request, loads, load_failed>>

Next ==
    \/ MainStartup
    \/ Receive
    \/ GenerateEmbeddings
    \/ GetModelInfo
    \/ ComputeSimilarity
    \/ Return

Spec == Init /\ [][Next]_vars

----------------------------------------------------------------------------
(* validate_texts applied on its own to any JSON list *)

ValidateTextLimits == {2, 3}

InitValidate ==
    /\ MAX_BATCH_SIZE \in BatchLimits
    /\ MAX_TEXT_LENGTH \in ValidateTextLimits
    /\ model_dim \in ModelDims
    /\ startup = "main"
    /\ producer = GoodProducer
    /\ proc = "starting"
    /\ embedding_model = "None"
    /\ got_first_request = FALSE
    /\ loads = 0
    /\ req = NoReq
    /\ resp = NoResp
    /\ calls = <<>>
    /\ arg \in TextLists
    /\ result = <<>>
    /\ load_failed = FALSE
    /\ earlier = NoEarlier
    /\ threads = NoThreads
    /\ session_state = NoSession

ApplyValidate ==
    /\ result = <<>>
    /\ result' = <<validate_texts(arg)>>
    /\ UNCHANGED <<MAX_BATCH_SIZE, MAX_TEXT_LENGTH, model_dim, startup, proc,
                   embedding_model, got_first_request, loads, req, resp, calls,
                   producer, arg, load_failed, earlier, threads, session_state>>

NextValidate == ApplyValidate

SpecValidate == InitValidate /\ [][NextValidate]_vars

----------------------------------------------------------------------------
(* Properties *)

\* the view function of `op` ran for the pending request and answered it
Served(op) == resp.op = op /\ resp.error # "internal_server_error"

\* the body parsed into an EmbeddingRequest: texts is a list of strings
WellTyped == req.body = "obj" /\ req.has_texts /\ first_non_str(req.texts, 1) = 0

Succeeded == Served("embeddings") /\ resp.status = 200

RECURSIVE SumTokens(_, _)
SumTokens(texts, k) ==
    IF k = 0 THEN 0 ELSE Len(split(clean(texts[k].s))) + SumTokens(texts, k - 1)

\* C1: a successful GenerateEmbeddings response holds exactly len(texts)
\* embeddings, each as long as the reported dimensions, for every normalize
\* and every batch_size override the schema accepts.
C1_OneEmbeddingPerText ==
    Succeeded =>
        /\ Len(resp.embeddings) = Len(req.texts)
        /\ \A k \in 1 .. Len(resp.embeddings) :
              Len(resp.embeddings[k]) = resp.dimensions

\* C2: GenerateEmbeddings with an empty texts list fails with HTTP 400,
\* kind validation_error (empty input), returns no embeddings and never
\* calls the producer.
C2_EmptyTextsRejected ==
    (Served("embeddings") /\ WellTyped /\ req.texts = <<>>) =>
        /\ resp.status = 400
        /\ resp.error = "validation_error"
        /\ resp.message.text = "Texts list cannot be empty"
        /\ ~resp.has_embeddings
        /\ resp.embeddings = <<>>
        /\ calls = <<>>

C2_Witness ==
    /\ Served("embeddings")
    /\ WellTyped
    /\ req.texts = <<>>
    /\ resp.status = 400

\* C3: a texts list longer than MAX_BATCH_SIZE fails with a validation error
\* whose message names the limit MAX_BATCH_SIZE, whatever batch_size
\* override the request carries.
C3_OversizedBatchRejected ==
    (Served("embeddings") /\ WellTyped /\ Len(req.texts) > MAX_BATCH_SIZE) =>
        /\ resp.status = 400
        /\ resp.error = "validation_error"
        /\ resp.message.text = "Batch size {len(texts)} exceeds maximum {MAX_BATCH_SIZE}"
        /\ resp.message.limit = MAX_BATCH_SIZE
        /\ resp.message.n = Len(req.texts)
        /\ ~resp.has_embeddings
        /\ calls = <<>>

C3_Witness ==
    /\ Served("embeddings")
    /\ WellTyped
    /\ Len(req.texts) > MAX_BATCH_SIZE
    /\ req.batch_size = Some(1)
    /\ resp.status = 400

Offends(e) == ~e.isStr \/ Len(e.s) > MAX_TEXT_LENGTH

\* C4: on a non-empty list within the batch limit, validate fails exactly
\* when some element is not a string or is longer than MAX_TEXT_LENGTH
\* characters (a string of exactly MAX_TEXT_LENGTH characters is accepted);
\* the error names the index of the first such element and says which of
\* the two faults that element has.
C4_ElementErrorsNameIndex ==
    (result # <<>> /\ Len(arg) > 0 /\ Len(arg) <= MAX_BATCH_SIZE) =>
        LET outcome == result[1]
            bad == {i \in 1 .. Len(arg) : Offends(arg[i])}
            at == outcome.msg.index + 1
        IN  IF bad = {}
            THEN outcome.ok
            ELSE /\ ~outcome.ok
                 /\ at \in bad
                 /\ \A j \in bad : at <= j
                 /\ IF arg[at].isStr
                    THEN /\ outcome.msg.text =
                              "Text at index {i} exceeds maximum length {MAX_TEXT_LENGTH}"
                         /\ outcome.msg.limit = MAX_TEXT_LENGTH
                    ELSE outcome.msg.text = "Text at index {i} must be a string"

C4_Witness ==
    /\ result # <<>>
    /\ Len(arg) = 3
    /\ Len(arg) <= MAX_BATCH_SIZE
    /\ arg[1].isStr /\ Len(arg[1].s) = MAX_TEXT_LENGTH
    /\ arg[2].isStr /\ Len(arg[2].s) = MAX_TEXT_LENGTH + 1
    /\ ~arg[3].isStr
    /\ ~result[1].ok
    /\ result[1].msg.index = 1

\* C5: in a successful response the embeddings are in input order:
\* embeddings[k] is the producer's vector for the preprocessed texts[k],
\* and the vectors of chunk c (of the chunk size used) start at position
\* (c - 1) * chunk_size, chunks concatenated in chunk order.
C5_InputOrderPreserved ==
    Succeeded =>
        /\ Len(resp.embeddings) <= Len(req.texts)
        /\ \A k \in 1 .. Len(resp.embeddings) :
              resp.embeddings[k] = Vec(clean(req.texts[k].s), req.normalize)
        /\ \A c \in 1 .. Len(calls) : \A j \in 1 .. Len(calls[c]) :
              LET chunk_size == Len(calls[1])
                  k == (c - 1) * chunk_size + j
              IN  /\ k <= Len(resp.embeddings)
                  /\ resp.embeddings[k] = Vec(calls[c][j], req.normalize)
                  /\ calls[c][j] = clean(req.texts[k].s)

C5_Witness ==
    /\ Succeeded
    /\ Len(req.texts) = 3
    /\ Len(calls) = 2
    /\ Len(calls[2]) = 1
    /\ clean(req.texts[1].s) # clean(req.texts[2].s)
    /\ clean(req.texts[2].s) # clean(req.texts[3].s)
    /\ Len(resp.embeddings) = 3

\* C6: in every successful response total_tokens is the sum over all
\* preprocessed texts of their whitespace-delimited token counts, for every
\* accepted batch_size override.
C6_TotalTokensIsWordCount ==
    Succeeded => resp.total_tokens = SumTokens(req.texts, Len(req.texts))

\* C7: dimensions is the length of the first output vector when a vector
\* was produced, and 0 when none was.
C7_DimensionsOfFirstVector ==
    Succeeded =>
        /\ resp.embeddings # <<>> => resp.dimensions = Len(resp.embeddings[1])
        /\ resp.embeddings = <<>> => resp.dimensions = 0

C7_Witness ==
    /\ Succeeded
    /\ Len(resp.embeddings) = 1
    /\ resp.dimensions = model_dim

\* C8: every successful GenerateEmbeddings response reports dimensions = D,
\* the dimensionality of the loaded model that GetModelInfo reports.
C8_DimensionsConstant ==
    /\ Succeeded => resp.dimensions = model_dim
    /\ (Served("model") /\ resp.status = 200) => resp.dimensions = model_dim

BothVectors == req.body = "obj" /\ req.has_e1 /\ req.has_e2

\* C9: ComputeSimilarity with vectors of different lengths fails with a
\* dimension-mismatch client error and computes no similarity.
C9_MismatchRejected ==
    (Served("similarity") /\ BothVectors
        /\ Len(req.embedding1) # Len(req.embedding2)) =>
        /\ resp.status = 400
        /\ resp.error = "Embeddings must have the same dimensions"
        /\ ~resp.similarity.present

C9_Witness ==
    /\ Served("similarity")
    /\ BothVectors
    /\ Len(req.embedding1) < Len(req.embedding2)
    /\ req.embedding1 # <<>>
    /\ resp.status = 400

IsZero(v) == \A i \in 1 .. Len(v) : v[i] = 0
Negated(v) == [i \in 1 .. Len(v) |-> -v[i]]

\* s = sign * sqrt(num / den) is within 1e-4 of target (1 or -1): the sign
\* is right and 0.9999 <= num / den <= 1.0001, which bounds |s| within
\* 0.00005 of 1 (the rounding of above_one is 2^-52, far inside the tolerance)
Approx(s, target) ==
    /\ s.present
    /\ ~s.nan
    /\ s.sign = target
    /\ 9999 * s.den <= 10000 * s.num
    /\ 10000 * s.num <= 10001 * s.den

C11_SimilarityInRange ==
    (Served("similarity") /\ BothVectors
        /\ Len(req.embedding1) = Len(req.embedding2)
        /\ ~IsZero(req.embedding1) /\ ~IsZero(req.embedding2)) =>
        /\ resp.status = 200
        /\ resp.similarity.present
        /\ ~resp.similarity.nan
        /\ resp.similarity.num <= resp.similarity.den
        /\ ~resp.similarity.above_one

----------------------------------------------------------------------------
(* the view functions of /embeddings and /model called with the module
   global `embedding_model` in either state, without initialize_model *)

ModelHandles == {"None", "Loaded"}

InitViews ==
    /\ MAX_BATCH_SIZE \in BatchLimits
    /\ MAX_TEXT_LENGTH \in TextLimits
    /\ model_dim \in ModelDims
    /\ startup = "wsgi"
    /\ producer = GoodProducer
    /\ proc = "serving"
    /\ embedding_model \in ModelHandles
    /\ got_first_request = TRUE
    /\ loads = 0
    /\ req \in EmbeddingRequests \cup {[NoReq EXCEPT !.op = "model"]}
    /\ resp = NoResp
    /\ calls = <<>>
    /\ arg = <<>>
    /\ result = <<>>
    /\ load_failed = FALSE
    /\ earlier = NoEarlier
    /\ threads = NoThreads
    /\ session_state = NoSession

\* the view function's return value becomes the response
View(op, handled) ==
    /\ req.op = op
    /\ resp = NoResp
    /\ resp' = handled.resp
    /\ calls' = handled.calls
    /\ UNCHANGED <<config, proc, embedding_model, got_first_request, loads, req,
                   load_failed>>

ViewGenerateEmbeddings == View("embeddings", generate_embeddings(req, embedding_model))

ViewGetModelInfo == View("model", Handled(get_model_info(embedding_model), <<>>))

NextViews ==
    \/ ViewGenerateEmbeddings
    \/ ViewGetModelInfo

SpecViews == InitViews /\ [][NextViews]_vars

NotReadyErrors == {"model_not_loaded", "Model not loaded"}

ViewFailed == resp # NoResp /\ resp.status >= 400 /\ resp.error # "internal_server_error"

\* C13: every failure answered by /embeddings, /similarity or /model carries
\* an error kind, a human-readable message and a timestamp.
C13_ErrorsAreStructured ==
    ViewFailed => (resp.error # "" /\ resp.has_message /\ resp.has_timestamp)

\* a view function has produced the pending answer
HandledByView == resp # NoResp /\ resp.error # "internal_server_error"

\* C14: once a load of the model has failed, no request is handled by a
\* view function any more, on either initialization path.
C14_LoadFailureIsFatal == load_failed => ~HandledByView

----------------------------------------------------------------------------
(* repeated requests: an earlier successful /embeddings exchange is kept
   beside the running service, so that a later one can be compared to it *)

RepeatTexts ==
    { <<Str(<<"a", " ", "b">>)>>,
      <<Str(<<" ", "b">>), Str(<<"a", " ", "b">>)>> }

RepeatBatchSizes == {None, Some(-1), Some(1)}

RepeatRequests ==
    {[NoReq EXCEPT !.op = "embeddings", !.body = "obj", !.has_texts = TRUE,
                   !.texts = texts, !.normalize = normalize, !.batch_size = batch_size]
        : texts \in RepeatTexts, normalize \in BOOLEAN, batch_size \in RepeatBatchSizes}
    \cup {[NoReq EXCEPT !.op = "model"]}
    \cup {[NoReq EXCEPT !.op = "similarity", !.body = "obj", !.has_e1 = TRUE, !.has_e2 = TRUE,
                        !.embedding1 = <<1, 2>>, !.embedding2 = <<2, 1>>]}

InitRepeat ==
    /\ MAX_BATCH_SIZE \in BatchLimits
    /\ MAX_TEXT_LENGTH \in {3}
    /\ model_dim \in ModelDims
    /\ startup = "wsgi"
    /\ producer = GoodProducer
    /\ proc = "serving"
    /\ embedding_model = "None"
    /\ got_first_request = FALSE
    /\ loads = 0
    /\ req = NoReq
    /\ resp = NoResp
    /\ calls = <<>>
    /\ arg = <<>>
    /\ result = <<>>
    /\ load_failed = FALSE
    /\ earlier = NoEarlier
    /\ threads = NoThreads
    /\ session_state = NoSession

ReceiveRepeat ==
    /\ proc = "serving"
    /\ req = NoReq
    /\ \E r \in RepeatRequests : req' = r
    /\ UNCHANGED <<config, proc, embedding_model, got_first_request, loads, resp, calls,
                   load_failed>>

\* the response is sent; the observer may keep a successful exchange
ReturnRemember ==
    /\ resp # NoResp
    /\ req' = NoReq
    /\ resp' = NoResp
    /\ calls' = <<>>
    /\ \E keep \in BOOLEAN :
          earlier' = IF keep /\ resp.op = "embeddings" /\ resp.status = 200
                     THEN [present |-> TRUE, texts |-> req.texts,
                           normalize |-> req.normalize, batch_size |-> req.batch_size,
                           embeddings |-> resp.embeddings]
                     ELSE earlier
    /\ UNCHANGED <<MAX_BATCH_SIZE, MAX_TEXT_LENGTH, model_dim, startup, producer, arg,
                   result, proc, embedding_model, got_first_request, loads, load_failed,
                   threads, session_state>>

NextRepeat ==
    \/ ReceiveRepeat
    \/ GenerateEmbeddings
    \/ GetModelInfo
    \/ ComputeSimilarity
    \/ ReturnRemember

SpecRepeat == InitRepeat /\ [][NextRepeat]_vars

\* the pending answer repeats an earlier successful call: same texts, same
\* normalize
RepeatsEarlier ==
    /\ resp.op = "embeddings" /\ resp.status = 200
    /\ earlier.present
    /\ earlier.texts = req.texts
    /\ earlier.normalize = req.normalize

\* C15: with a producer that is a pure function of its input, two successful
\* GenerateEmbeddings calls with identical texts and normalize return
\* identical embeddings in the same order, whatever requests ran in between.
C15_RepeatableEmbeddings ==
    RepeatsEarlier => resp.embeddings = earlier.embeddings

----------------------------------------------------------------------------
(* /embeddings served by a loaded model whose encode call may raise *)

FaultCalls == {1, 2}
ExceptionClasses == {"ValueError", "RuntimeError"}

Producers ==
    {GoodProducer}
    \cup {FailingProducer(at, exc) : at \in FaultCalls, exc \in ExceptionClasses}
    \cup {ShortProducer(at) : at \in FaultCalls}

InitFault ==
    /\ MAX_BATCH_SIZE \in {3}
    /\ MAX_TEXT_LENGTH \in {3}
    /\ model_dim \in ModelDims
    /\ startup = "main"
    /\ producer \in Producers
    /\ proc = "serving"
    /\ embedding_model = "Loaded"
    /\ got_first_request = FALSE
    /\ loads = 1
    /\ req = NoReq
    /\ resp = NoResp
    /\ calls = <<>>
    /\ arg = <<>>
    /\ result = <<>>
    /\ load_failed = FALSE
    /\ earlier = NoEarlier
    /\ threads = NoThreads
    /\ session_state = NoSession

ReceiveEmbeddings ==
    /\ proc = "serving"
    /\ req = NoReq
    /\ \E r \in EmbeddingRequests : req' = r
    /\ UNCHANGED <<config, proc, embedding_model, got_first_request, loads, resp, calls,
                   load_failed>>

NextFault ==
    \/ ReceiveEmbeddings
    \/ GenerateEmbeddings
    \/ Return

SpecFault == InitFault /\ [][NextFault]_vars

\* an encode call of the pending request has raised
ProducerFailed ==
    /\ resp # NoResp
    /\ producer.mode = "raise"
    /\ Len(calls) >= producer.at

\* C16: when an encode call raises, it was the last call made (no retry, no
\* later chunk) and the request ends with a server-side error, not a
\* validation error, carrying no embeddings.
C16_ProducerFailureIsServerFault ==
    ProducerFailed =>
        /\ Len(calls) = producer.at
        /\ resp.status = 500
        /\ resp.error = "embedding_generation_failed"
        /\ ~resp.has_embeddings
        /\ resp.embeddings = <<>>

----------------------------------------------------------------------------

\* the pending /embeddings request passed the schema and validate_texts, so
\* that the handler computed a batch size for it
Planned ==
    /\ Served("embeddings")
    /\ WellTyped
    /\ validate_texts(req.texts).ok

\* C17: the batch size computed for an accepted request lies between 1 and
\* MAX_BATCH_SIZE, for every batch_size override the schema accepts.
C17_BatchSizeAtLeastOne ==
    Planned =>
        effective_batch_size(req.batch_size, Len(preprocess_texts(req.texts)))
            \in 1 .. MAX_BATCH_SIZE

\* the chunks handed to encode, put back end to end
RECURSIVE Flatten(_)
Flatten(chunks) ==
    IF chunks = <<>> THEN <<>> ELSE Head(chunks) \o Flatten(Tail(chunks))

\* C18: for an accepted request the chunks passed to the producer are, end
\* to end, the preprocessed texts in order; none is empty, and each has the
\* effective chunk size except the last, which may be shorter.
C18_ChunksCoverInputs ==
    Succeeded =>
        LET size == effective_batch_size(req.batch_size, Len(req.texts))
        IN  /\ Flatten(calls) = preprocess_texts(req.texts)
            /\ \A k \in 1 .. Len(calls) :
                  /\ Len(calls[k]) >= 1
                  /\ Len(calls[k]) <= size
                  /\ k < Len(calls) => Len(calls[k]) = size

----------------------------------------------------------------------------
(* preprocess_texts applied on its own to lists of strings *)

MaxStrLen == 4

Alphabet == {"a", "b", " ", "\t"}

PreprocessStrings == ListsUpTo(Alphabet, MaxStrLen)

PreprocessTextLimits == {1, 2, 3, 4}

PreprocessArgs ==
    {<<>>}
    \cup {<<Str(s)>> : s \in PreprocessStrings}
    \cup {<<Str(s), Str(u)>> : s \in PreprocessStrings, u \in Strings}

InitPreprocess ==
    /\ MAX_BATCH_SIZE \in {3}
    /\ MAX_TEXT_LENGTH \in PreprocessTextLimits
    /\ model_dim \in ModelDims
    /\ startup = "main"
    /\ producer = GoodProducer
    /\ proc = "starting"
    /\ embedding_model = "None"
    /\ got_first_request = FALSE
    /\ loads = 0
    /\ req = NoReq
    /\ resp = NoResp
    /\ calls = <<>>
    /\ arg \in PreprocessArgs
    /\ result = <<>>
    /\ load_failed = FALSE
    /\ earlier = NoEarlier
    /\ threads = NoThreads
    /\ session_state = NoSession

ApplyPreprocess ==
    /\ result = <<>>
    /\ result' = <<preprocess_texts(arg)>>
    /\ UNCHANGED <<MAX_BATCH_SIZE, MAX_TEXT_LENGTH, model_dim, startup, proc,
                   embedding_model, got_first_request, loads, req, resp, calls,
                   producer, arg, load_failed, earlier, threads, session_state>>

NextPreprocess == ApplyPreprocess

SpecPreprocess == InitPreprocess /\ [][NextPreprocess]_vars

\* the string read character by character: leading and trailing whitespace
\* dropped, every interior whitespace run replaced by one space
RECURSIVE Normalized(_, _, _, _)
Normalized(s, i, out, pending) ==
    IF i > Len(s) THEN out
    ELSE IF IsSpace(s[i]) THEN Normalized(s, i + 1, out, out # <<>>)
    ELSE Normalized(s, i + 1,
                    (IF pending THEN Append(out, " ") ELSE out) \o <<s[i]>>, FALSE)

\* the first k characters of s (none when k is not positive)
FirstChars(s, k) == SubSeq(s, 1, Min2(k, Len(s)))

\* the output the claim describes for one input string
Described(s) ==
    LET c == Normalized(s, 1, <<>>, FALSE)
    IN  IF Len(c) > MAX_TEXT_LENGTH
        THEN FirstChars(c, MAX_TEXT_LENGTH - 3) \o <<".", ".", ".">>
        ELSE c

\* C19: preprocess returns one string per input in the same order, each the
\* trimmed and whitespace-collapsed input, replaced by its first
\* MAX_TEXT_LENGTH - 3 characters and "..." when that is longer than
\* MAX_TEXT_LENGTH and left alone otherwise.
C19_PreprocessNormalizes ==
    (result # <<>>) =>
        /\ Len(result[1]) = Len(arg)
        /\ \A i \in 1 .. Len(arg) : result[1][i] = Described(arg[i].s)

----------------------------------------------------------------------------

\* a list of strings within the configured limits
WithinLimits(texts) ==
    /\ texts # <<>>
    /\ Len(texts) <= MAX_BATCH_SIZE
    /\ \A i \in 1 .. Len(texts) : Len(texts[i].s) <= MAX_TEXT_LENGTH

\* the positions of the strings that are empty or whitespace-only
Blanks(texts) == {i \in 1 .. Len(texts) : \A k \in 1 .. Len(texts[i].s) : IsSpace(texts[i].s[k])}

\* the word count of the strings that are not blank
RECURSIVE WordsOutsideBlanks(_, _)
WordsOutsideBlanks(texts, k) ==
    IF k = 0 THEN 0
    ELSE (IF k \in Blanks(texts) THEN 0 ELSE Len(split(texts[k].s)))
         + WordsOutsideBlanks(texts, k - 1)

\* C20: a request within limits that holds empty or whitespace-only strings
\* is accepted and yields one embedding per text, the blank strings adding
\* nothing to total_tokens.
C20_BlankTextsAccepted ==
    (Served("embeddings") /\ WellTyped /\ WithinLimits(req.texts)
        /\ Blanks(req.texts) # {}) =>
        /\ resp.status = 200
        /\ Len(resp.embeddings) = Len(req.texts)
        /\ resp.total_tokens = WordsOutsideBlanks(req.texts, Len(req.texts))

----------------------------------------------------------------------------

\* an encode call of the pending request returned fewer vectors than texts
ProducerFellShort ==
    /\ resp # NoResp
    /\ producer.mode = "short"
    /\ Len(calls) >= producer.at

\* C21: when the producer returns a number of vectors different from the
\* number of texts, the request fails with a server fault and no embeddings
\* instead of succeeding.
C21_AssemblyMismatchFails ==
    ProducerFellShort =>
        /\ resp.status = 500
        /\ ~resp.has_embeddings

\* /similarity was given two vectors of one length, at least one all-zero
\* (the zero-length vector included)
ZeroNormCase ==
    /\ Served("similarity")
    /\ BothVectors
    /\ Len(req.embedding1) = Len(req.embedding2)
    /\ (IsZero(req.embedding1) \/ IsZero(req.embedding2))

\* C22: with an all-zero vector the outcome is defined: a success carrying
\* a finite similarity, or an error; never a success carrying not-a-number.
C22_ZeroNormDefined ==
    ZeroNormCase =>
        \/ resp.status = 200 /\ resp.similarity.present /\ ~resp.similarity.nan
        \/ resp.status >= 400 /\ resp.error # ""

----------------------------------------------------------------------------
(* the threaded server (app.run(threaded=True)): every request runs in a
   thread of its own; Flask runs the before_first_request functions under a
   lock, and a thread can be preempted between any two steps below *)

NumThreads == 2

Threads == 1 .. NumThreads

ThreadRequests ==
    {[NoReq EXCEPT !.op = "embeddings", !.body = "obj", !.has_texts = TRUE,
                   !.texts = <<>>]}
    \cup {[NoReq EXCEPT !.op = "embeddings", !.body = "obj", !.has_texts = TRUE,
                        !.texts = <<Str(<<"a", " ", "b">>)>>]}
    \cup {[NoReq EXCEPT !.op = "embeddings", !.body = "obj", !.has_texts = TRUE,
                        !.texts = <<Str(<<" ", "b">>), Str(<<"a", " ", "b">>)>>,
                        !.batch_size = Some(1)]}

\* a thread: where it is, its request, the loop offset i, all_embeddings and
\* the status it answered
IdleThread ==
    [pc |-> "idle", req |-> NoReq, i |-> 0, embeddings |-> <<>>, status |-> 0]

InitThreads ==
    /\ MAX_BATCH_SIZE \in {3}
    /\ MAX_TEXT_LENGTH \in {3}
    /\ model_dim \in ModelDims
    /\ startup \in {"main", "wsgi"}
    /\ producer = GoodProducer
    /\ proc = IF startup = "main" THEN "starting" ELSE "serving"
    /\ embedding_model = "None"
    /\ got_first_request = FALSE
    /\ loads = 0
    /\ req = NoReq
    /\ resp = NoResp
    /\ calls = <<>>
    /\ arg = <<>>
    /\ result = <<>>
    /\ load_failed = FALSE
    /\ earlier = NoEarlier
    /\ threads = [t \in Threads |-> IdleThread]
    /\ session_state = NoSession

\* what no step of a request thread changes
untouched ==
    <<MAX_BATCH_SIZE, MAX_TEXT_LENGTH, model_dim, startup, producer, arg, result,
      earlier, proc, req, resp, calls, session_state>>

model_state == <<embedding_model, got_first_request, loads, load_failed>>

\* thread t moves to pc
Goto(t, pc) == threads' = [threads EXCEPT ![t].pc = pc]

\* thread t answers with status
Answer(t, status) == threads' = [threads EXCEPT ![t].pc = "done", ![t].status = status]

\* the server accepts a request and hands it to a new thread
TReceive(t) ==
    /\ proc = "serving"
    /\ threads[t].pc = "idle"
    /\ \E r \in ThreadRequests :
          threads' = [threads EXCEPT ![t] = [IdleThread EXCEPT !.pc = "arrived", !.req = r]]
    /\ UNCHANGED <<untouched, model_state>>

\* Flask, before dispatching: the unlocked test of _got_first_request
TTrigger(t) ==
    /\ threads[t].pc = "arrived"
    /\ Goto(t, IF got_first_request THEN "view" ELSE "waiting")
    /\ UNCHANGED <<untouched, model_state>>

\* the lock of the before_first_request functions is free
lock_free == \A u \in Threads : threads[u].pc # "initializing"

\* the lock is taken and _got_first_request is tested again
TAcquire(t) ==
    /\ threads[t].pc = "waiting"
    /\ lock_free
    /\ Goto(t, IF got_first_request THEN "view" ELSE "initializing")
    /\ UNCHANGED <<untouched, model_state>>

\* initialize_model without its test of the global
model_is_unset_always(model) == TRUE

\* `if embedding_model is None` of initialize_model
model_is_unset(model) == model = "None"

\* initialize_model under the lock; a load that raises leaves
\* _got_first_request unset and the thread answers 500
TInitialize(t) ==
    /\ threads[t].pc = "initializing"
    /\ \E load_ok \in (IF model_is_unset(embedding_model) THEN BOOLEAN ELSE {TRUE}) :
          IF model_is_unset(embedding_model) /\ ~load_ok
          THEN /\ load_failed' = TRUE
               /\ Answer(t, 500)
               /\ UNCHANGED <<embedding_model, got_first_request, loads>>
          ELSE /\ embedding_model' = "Loaded"
               /\ loads' = IF model_is_unset(embedding_model) THEN loads + 1 ELSE loads
               /\ got_first_request' = TRUE
               /\ Goto(t, "view")
               /\ UNCHANGED load_failed
    /\ UNCHANGED untouched

\* generate_embeddings up to its loop: model check, parse, validate_texts
TView(t) ==
    /\ threads[t].pc = "view"
    /\ IF embedding_model = "None" THEN Answer(t, 503)
       ELSE IF parse_request(threads[t].req).kind = "ValidationError" THEN Answer(t, 400)
       ELSE IF parse_request(threads[t].req).kind = "TypeError" THEN Answer(t, 500)
       ELSE IF ~validate_texts(threads[t].req.texts).ok THEN Answer(t, 400)
       ELSE Goto(t, "loop")
    /\ UNCHANGED <<untouched, model_state>>

thread_texts(t) == preprocess_texts(threads[t].req.texts)

thread_batch_size(t) ==
    effective_batch_size(threads[t].req.batch_size, Len(thread_texts(t)))

\* range(0, len(processed_texts), batch_size) has a next value
loop_continues(t) ==
    thread_batch_size(t) > 0 /\ threads[t].i < Len(thread_texts(t))

\* the thread enters embedding_model.encode for its next chunk
TEncode(t) ==
    /\ threads[t].pc = "loop"
    /\ loop_continues(t)
    /\ Goto(t, "encoding")
    /\ UNCHANGED <<untouched, model_state>>

\* encode returns; all_embeddings is extended
TEncoded(t) ==
    /\ threads[t].pc = "encoding"
    /\ LET i == threads[t].i
           batch_texts == SubSeq(thread_texts(t), i + 1,
                                 Min2(i + thread_batch_size(t), Len(thread_texts(t))))
       IN  threads' = [threads EXCEPT
                          ![t].pc = "loop",
                          ![t].i = i + thread_batch_size(t),
                          ![t].embeddings = @ \o encode(batch_texts, threads[t].req.normalize)]
    /\ UNCHANGED <<untouched, model_state>>

\* the loop is over: the response is built
TRespond(t) ==
    /\ threads[t].pc = "loop"
    /\ ~loop_continues(t)
    /\ Answer(t, 200)
    /\ UNCHANGED <<untouched, model_state>>

\* the response is sent and the thread ends
TReturn(t) ==
    /\ threads[t].pc = "done"
    /\ threads' = [threads EXCEPT ![t] = IdleThread]
    /\ UNCHANGED <<untouched, model_state>>

NextThreads ==
    \/ MainStartup
    \/ \E t \in Threads : TReceive(t)
    \/ \E t \in Threads : TTrigger(t)
    \/ \E t \in Threads : TAcquire(t)
    \/ \E t \in Threads : TInitialize(t)
    \/ \E t \in Threads : TView(t)
    \/ \E t \in Threads : TEncode(t)
    \/ \E t \in Threads : TEncoded(t)
    \/ \E t \in Threads : TRespond(t)
    \/ \E t \in Threads : TReturn(t)

SpecThreads == InitThreads /\ [][NextThreads]_vars

\* the threads inside the producer's encode call
Encoding == {t \in Threads : threads[t].pc = "encoding"}

\* C23: under any interleaving of concurrent requests at most one thread is
\* inside the producer's encode call at a time.
C23_EncodeSerialized == Cardinality(Encoding) <= 1

----------------------------------------------------------------------------

\* the pending /embeddings answer is a validation error
ValidationFailed ==
    /\ resp.op = "embeddings"
    /\ resp.status = 400
    /\ resp.error = "validation_error"

\* C24: encode is called only after parsing and validate_texts succeeded,
\* and a request that ends in a validation error has made no encode call.
C24_ValidationPrecedesInference ==
    /\ (calls # <<>>) => (parse_request(req).kind = "ok" /\ validate_texts(req.texts).ok)
    /\ ValidationFailed => calls = <<>>

\* C25: inside GenerateEmbeddings the truncation branch is never taken:
\* for every texts list that passes validate_texts, each preprocessed string
\* is the whitespace-normalized input, unchanged otherwise, and no longer
\* than MAX_TEXT_LENGTH.
C25_TruncationNeverTaken ==
    Planned =>
        \A i \in 1 .. Len(req.texts) :
            /\ preprocess_texts(req.texts)[i] = Normalized(req.texts[i].s, 1, <<>>, FALSE)
            /\ Len(preprocess_texts(req.texts)[i]) <= MAX_TEXT_LENGTH

\* an accepted request holding a string exactly as long as the limit, whose
\* whitespace is collapsed
C25_Witness ==
    /\ Planned
    /\ resp.status = 200
    /\ \E i \in 1 .. Len(req.texts) :
          /\ Len(req.texts[i].s) = MAX_TEXT_LENGTH
          /\ Len(preprocess_texts(req.texts)[i]) < MAX_TEXT_LENGTH

\* C26: for every MAX_TEXT_LENGTH >= 1 and every input string, each string
\* returned by preprocess_texts called on its own is at most
\* MAX_TEXT_LENGTH characters long.
C26_OutputWithinLimit ==
    (result # <<>> /\ MAX_TEXT_LENGTH >= 1) =>
        \A i \in 1 .. Len(result[1]) : Len(result[1][i]) <= MAX_TEXT_LENGTH

----------------------------------------------------------------------------

\* no batch_size override: absent, null or 0
NoOverride == req.batch_size = None \/ req.batch_size = Some(0)

\* C27: a valid request without a batch_size override makes exactly one
\* encode call, holding all preprocessed texts; more than one encode call
\* happens only for a positive batch_size smaller than len(texts).
C27_SingleChunkByDefault ==
    /\ (Planned /\ NoOverride) =>
          /\ resp.status = 200
          /\ calls = <<preprocess_texts(req.texts)>>
    /\ (resp.op = "embeddings" /\ Len(calls) > 1) =>
          /\ req.batch_size # None
          /\ req.batch_size[1] > 0
          /\ req.batch_size[1] < Len(req.texts)

\* several texts sent with batch_size 0 and encoded in one call
C27_Witness ==
    /\ Planned
    /\ req.batch_size = Some(0)
    /\ Len(req.texts) >= 2
    /\ Len(calls) = 1
    /\ Len(calls[1]) = Len(req.texts)

\* C28: under any interleaving of concurrent first requests and later
\* requests the model is loaded successfully at most once per process, and
\* once the handle is set it is never unset again or replaced by another load.
C28_LoadedAtMostOnce ==
    /\ [](loads <= 1)
    /\ [][embedding_model = "Loaded" =>
            (embedding_model' = "Loaded" /\ loads' = loads)]_vars

\* a first load failed, a later one succeeded, and every thread is in the
\* encode loop of its request
C28_Witness ==
    /\ load_failed
    /\ loads = 1
    /\ embedding_model = "Loaded"
    /\ \A t \in Threads : threads[t].pc = "loop"

----------------------------------------------------------------------------
(* The Streamlit app (src/streamlit_app/app.py): one session; every action
   is one user interaction followed by the script run it triggers *)

MaxHighlights == 3

\* an uploaded PDF by what upload_document reads from it: the number of
\* pieces of pdf_text.split('\n\n') (one more than the pages at least) and
\* whether the extracted text is blank
PdfParts == {2, 9, 10, 25, 30}

Pdfs ==
    {[parts |-> n, blank |-> FALSE] : n \in PdfParts}
    \cup {[parts |-> 2, blank |-> TRUE]}

NoPdf == [parts |-> 0, blank |-> TRUE]

SelectedTexts == {"", "x"}

HighlightColors == {"yellow", "blue"}

NoDocument == [loaded |-> FALSE, total_pages |-> 0]

initialize_session_state ==
    [current_document |-> NoDocument,
     highlights       |-> <<>>,
     selected_text    |-> "",
     current_page     |-> 1,
     pdf_text         |-> NoPdf]

\* APIClient.upload_document
upload_document(ss, pdf) ==
    IF ~pdf.blank
    THEN [ss EXCEPT !.current_document =
                        [loaded |-> TRUE, total_pages |-> pdf.parts \div 10],
                    !.pdf_text = pdf]
    ELSE ss

Highlight(page_number, selected_text, color) ==
    [page_number |-> page_number, selected_text |-> selected_text, color |-> color]

\* APIClient.create_highlight: builds the highlight and stores it
APIClient_create_highlight(ss, page_number, selected_text, color) ==
    [ss EXCEPT !.highlights = Append(@, Highlight(page_number, selected_text, color))]

\* create_highlight(text, color)
create_highlight(ss, text, color) ==
    IF ~ss.current_document.loaded \/ text = ""
    THEN ss
    ELSE LET stored == APIClient_create_highlight(ss, ss.current_page, text, color)
         IN  [stored EXCEPT !.highlights =
                                Append(@, Highlight(ss.current_page, text, color))]

InitStreamlit ==
    /\ MAX_BATCH_SIZE \in {3}
    /\ MAX_TEXT_LENGTH \in {3}
    /\ model_dim \in ModelDims
    /\ startup = "main"
    /\ producer = GoodProducer
    /\ proc = "starting"
    /\ embedding_model = "None"
    /\ got_first_request = FALSE
    /\ loads = 0
    /\ req = NoReq
    /\ resp = NoResp
    /\ calls = <<>>
    /\ arg = <<>>
    /\ result = <<>>
    /\ load_failed = FALSE
    /\ earlier = NoEarlier
    /\ threads = NoThreads
    /\ session_state = initialize_session_state

outside_session ==
    <<MAX_BATCH_SIZE, MAX_TEXT_LENGTH, model_dim, startup, producer, arg, result,
      earlier, threads, proc, embedding_model, got_first_request, loads, req, resp,
      calls, load_failed>>

\* render_pdf_viewer gets past st.number_input, which raises when its
\* max_value is below its min_value of 1
viewer_rendered ==
    /\ session_state.current_document.loaded
    /\ session_state.current_document.total_pages >= 1

\* "Upload and Analyze", offered while no document is loaded
Upload ==
    /\ ~session_state.current_document.loaded
    /\ \E pdf \in Pdfs : session_state' = upload_document(session_state, pdf)
    /\ UNCHANGED outside_session

\* the "Previous" button
Previous ==
    /\ session_state.current_document.loaded
    /\ ~(session_state.current_page <= 1)
    /\ session_state' = [session_state EXCEPT !.current_page = Max2(1, @ - 1)]
    /\ UNCHANGED outside_session

\* the "Page" number input, limited to 1 .. total_pages by the widget
PageInput ==
    /\ viewer_rendered
    /\ \E page \in 1 .. session_state.current_document.total_pages :
          /\ page # session_state.current_page
          /\ session_state' = [session_state EXCEPT !.current_page = page]
    /\ UNCHANGED outside_session

\* the "Next" button
NextPage ==
    /\ viewer_rendered
    /\ ~(session_state.current_page >= session_state.current_document.total_pages)
    /\ session_state' =
          [session_state EXCEPT
              !.current_page = Min2(session_state.current_document.total_pages, @ + 1)]
    /\ UNCHANGED outside_session

\* the "Selected Text" area of render_text_selection_tools
SelectText ==
    /\ viewer_rendered
    /\ \E text \in SelectedTexts :
          /\ text # session_state.selected_text
          /\ session_state' = [session_state EXCEPT !.selected_text = text]
    /\ UNCHANGED outside_session

\* the "Highlight" button, offered while the selected text is not empty
ClickHighlight ==
    /\ viewer_rendered
    /\ session_state.selected_text # ""
    /\ Len(session_state.highlights) < MaxHighlights
    /\ \E color \in HighlightColors :
          session_state' = create_highlight(session_state, session_state.selected_text, color)
    /\ UNCHANGED outside_session

\* the sidebar's "Upload New Document" button
UploadNewDocument ==
    /\ session_state.current_document.loaded
    /\ session_state' = initialize_session_state
    /\ UNCHANGED outside_session

NextStreamlit ==
    \/ Upload
    \/ Previous
    \/ PageInput
    \/ NextPage
    \/ SelectText
    \/ ClickHighlight
    \/ UploadNewDocument

SpecStreamlit == InitStreamlit /\ [][NextStreamlit]_vars

\* C29: each successful create_highlight with a document loaded and
\* non-empty text makes session_state.highlights longer by exactly one.
C29_HighlightAddsOne ==
    [][ClickHighlight =>
          Len(session_state'.highlights) = Len(session_state.highlights) + 1]_vars

\* C30: whenever a document is loaded, current_page lies between 1 and the
\* document's total_pages.
C30_PageWithinDocument ==
    session_state.current_document.loaded =>
        /\ 1 <= session_state.current_page
        /\ session_state.current_page <= session_state.current_document.total_pages
====
